---------------------------- MODULE Spec2Model ----------------------------
(***************************************************************************)
(* ColdGen: a Flask request handler (main.py) that scrapes a careers page, *)
(* extracts job postings with a language-model call (chains.py), matches    *)
(* them against a portfolio kept in a CSV file and a vector index          *)
(* (portfolio.py) and composes an e-mail with a second language-model call. *)
(*                                                                         *)
(* A Python str is modelled as a sequence of atoms.  An atom is one         *)
(* character (page text, the text handed to extract_jobs) or one lexeme     *)
(* (a word, a JSON token of a language-model response); len() is Len and    *)
(* slicing is SubSeq.  A Python value whose type the code inspects          *)
(* (isinstance, truthiness) is a tagged record [t |-> type, v |-> value].   *)
(***************************************************************************)
EXTENDS Integers, Sequences, FiniteSets, TLC

VARIABLES
    initialized,    \* main.py: chain is not None and portfolio is not None
    cached_data,    \* main.py: the module-level cache, five slots
    data,           \* Portfolio.data: the in-memory dataset (rows)
    csv_file,       \* the CSV file at Portfolio.file_path
    embedding_model,\* Portfolio.embedding_model is not None
    collection,     \* Portfolio.collection is not None
    index,          \* the entries of the persistent "portfolio" collection
    op,             \* the operation that ran last, with its arguments
    ret,            \* what it returned or raised
    calls,          \* the calls it made, in order
    page            \* what the request rendered: email, error, jobs_found

vars == <<initialized, cached_data, data, csv_file, embedding_model,
          collection, index, op, ret, calls, page>>

-----------------------------------------------------------------------------
(* Python values *)

NoneV == [t |-> "none", v |-> <<>>]
StrV(s) == [t |-> "str", v |-> s]
NumV(s) == [t |-> "num", v |-> s]
ListV(s) == [t |-> "list", v |-> s]
DictV(d) == [t |-> "dict", v |-> d]

\* bool(x) of Python: None, "", [], {} and 0 are falsy.
Truthy(x) ==
    CASE x.t = "none" -> FALSE
      [] x.t = "num"  -> x.v # <<"0">>
      [] OTHER        -> DOMAIN x.v # {}

\* the characters of \s that the texts here hold
Whitespace == {" ", "\n", "\t"}

RECURSIVE LStrip(_)
LStrip(s) ==
    IF s # <<>> /\ Head(s) \in Whitespace THEN LStrip(Tail(s)) ELSE s

RECURSIVE RStrip(_)
RStrip(s) ==
    IF s # <<>> /\ s[Len(s)] \in Whitespace
    THEN RStrip(SubSeq(s, 1, Len(s) - 1))
    ELSE s

\* str.strip()
Strip(s) == RStrip(LStrip(s))

\* sep.join(parts), parts a sequence of strs
RECURSIVE Join(_, _)
Join(parts, sep) ==
    IF parts = <<>> THEN <<>>
    ELSE IF Len(parts) = 1 THEN parts[1]
    ELSE parts[1] \o sep \o Join(Tail(parts), sep)

-----------------------------------------------------------------------------
(* The language-model response as JSON lexemes, and json.loads over them *)

\* Lexemes of a response: brackets, the comma, white space, the four keys
\* with their colon, string literals, numbers, null, and a word of prose.
KeyTok == {"role:", "experience:", "skills:", "description:"}
StrTok == {"'Engineer'", "'Go'", "'2 years'", "'Builds things'", "' '", "''"}
NumTok == {"0", "1"}

KeyName(tok) ==
    CASE tok = "role:"        -> "role"
      [] tok = "experience:"  -> "experience"
      [] tok = "skills:"      -> "skills"
      [] tok = "description:" -> "description"

\* The str a string literal denotes.
StrVal(tok) ==
    CASE tok = "'Engineer'"      -> <<"Engineer">>
      [] tok = "'Go'"            -> <<"Go">>
      [] tok = "'2 years'"       -> <<"2", " ", "years">>
      [] tok = "'Builds things'" -> <<"Builds", " ", "things">>
      [] tok = "' '"             -> <<" ">>
      [] tok = "''"              -> <<>>

\* A dict is a sequence of [k, val] in insertion order, keys unique.
HasKey(d, k) == \E i \in DOMAIN d : d[i].k = k
DictGet(d, k, default) ==
    IF HasKey(d, k) THEN d[CHOOSE i \in DOMAIN d : d[i].k = k].val ELSE default
DictSet(d, k, val) ==
    IF HasKey(d, k)
    THEN [i \in DOMAIN d |-> IF d[i].k = k THEN [k |-> k, val |-> val] ELSE d[i]]
    ELSE Append(d, [k |-> k, val |-> val])

ParseFail == [ok |-> FALSE, val |-> NoneV, rest |-> <<>>]

RECURSIVE ParseValue(_)
RECURSIVE ParseElems(_, _)
RECURSIVE ParseMembers(_, _)

\* value after value inside [ ... ], acc the elements so far
ParseElems(s, acc) ==
    LET r == ParseValue(s) IN
    IF ~r.ok \/ r.rest = <<>> THEN ParseFail
    ELSE IF Head(r.rest) = "," THEN ParseElems(Tail(r.rest), Append(acc, r.val))
    ELSE IF Head(r.rest) = "]"
         THEN [ok |-> TRUE, val |-> ListV(Append(acc, r.val)), rest |-> Tail(r.rest)]
    ELSE ParseFail

\* key: value after key: value inside { ... }; a repeated key keeps its
\* place and takes the last value
ParseMembers(s, acc) ==
    IF s = <<>> \/ Head(s) \notin KeyTok THEN ParseFail
    ELSE LET r == ParseValue(Tail(s))
             d == DictSet(acc, KeyName(Head(s)), r.val)
         IN IF ~r.ok \/ r.rest = <<>> THEN ParseFail
            ELSE IF Head(r.rest) = "," THEN ParseMembers(Tail(r.rest), d)
            ELSE IF Head(r.rest) = "}"
                 THEN [ok |-> TRUE, val |-> DictV(d), rest |-> Tail(r.rest)]
            ELSE ParseFail

ParseValue(s) ==
    IF s = <<>> THEN ParseFail
    ELSE LET h == Head(s)
             r == Tail(s)
         IN CASE h = "[" ->
                    IF r # <<>> /\ Head(r) = "]"
                    THEN [ok |-> TRUE, val |-> ListV(<<>>), rest |-> Tail(r)]
                    ELSE ParseElems(r, <<>>)
              [] h = "{" ->
                    IF r # <<>> /\ Head(r) = "}"
                    THEN [ok |-> TRUE, val |-> DictV(<<>>), rest |-> Tail(r)]
                    ELSE ParseMembers(r, <<>>)
              [] h \in StrTok -> [ok |-> TRUE, val |-> StrV(StrVal(h)), rest |-> r]
              [] h \in NumTok -> [ok |-> TRUE, val |-> NumV(<<h>>), rest |-> r]
              [] h = "null"   -> [ok |-> TRUE, val |-> NoneV, rest |-> r]
              [] OTHER        -> ParseFail

NotWhitespace(a) == a \notin Whitespace

\* json.loads: white space between lexemes is skipped, the whole text must
\* be one value; ok = FALSE stands for json.JSONDecodeError.
JsonLoads(s) ==
    LET r == ParseValue(SelectSeq(s, NotWhitespace)) IN
    IF r.ok /\ r.rest = <<>> THEN [ok |-> TRUE, val |-> r.val]
    ELSE [ok |-> FALSE, val |-> NoneV]

\* repr(x) and str(x) of a parsed value
RECURSIVE Repr(_)
Repr(x) ==
    CASE x.t = "str"  -> <<"'">> \o x.v \o <<"'">>
      [] x.t = "num"  -> x.v
      [] x.t = "none" -> <<"None">>
      [] x.t = "list" ->
            <<"[">> \o Join([i \in DOMAIN x.v |-> Repr(x.v[i])], <<",", " ">>) \o <<"]">>
      [] x.t = "dict" ->
            <<"{">> \o Join([i \in DOMAIN x.v |->
                               <<"'", x.v[i].k, "'", ":", " ">> \o Repr(x.v[i].val)],
                            <<",", " ">>) \o <<"}">>

PyStr(x) == IF x.t = "str" THEN x.v ELSE Repr(x)

\* re.search(open.*close, s, re.DOTALL).group(0): from the first `open` to
\* the last `close` after it; <<>> stands for "no match" (a match has at
\* least the two delimiters).
FirstIndex(s, a) == CHOOSE i \in DOMAIN s : s[i] = a /\ \A j \in 1..(i - 1) : s[j] # a
LastIndex(s, a) == CHOOSE i \in DOMAIN s : s[i] = a /\ \A j \in (i + 1)..Len(s) : s[j] # a
RegexSpan(s, open, close) ==
    IF \E i \in DOMAIN s : s[i] = open
    THEN LET i == FirstIndex(s, open) IN
         IF \E j \in (i + 1)..Len(s) : s[j] = close
         THEN SubSeq(s, i, LastIndex(s, close))
         ELSE <<>>
    ELSE <<>>

-----------------------------------------------------------------------------
(* chains.py: Chain.extract_jobs, Chain._create_fallback_job *)

\* What an operation hands back: raised = "" for a normal return (val is
\* the value), else the exception's class (msg is str(e)).
Return(val) == [raised |-> "", msg |-> <<>>, val |-> val]
Raise(class, msg) == [raised |-> class, msg |-> msg, val |-> NoneV]

\* The language-model service's answer to one invoke: it raises, or it
\* returns a message with this content.
LlmRaises == [raises |-> TRUE, content |-> <<>>]
LlmSays(content) == [raises |-> FALSE, content |-> content]
LlmErrorMsg == <<"Connection error.">>

\* text[:500] + '...' if len(text) > 500 else text
FallbackDescLen == 500

JobKeys == {"role", "experience", "skills", "description"}

\* job.get(k): None for an absent key
JobGet(job, k) == IF k \in DOMAIN job THEN job[k] ELSE NoneV

C3_ValidatedJobMutant(job) ==
    [k \in {"role", "experience", "skills", "description"} \cap {job[i].k : i \in DOMAIN job}
        |-> DictGet(job, k, NoneV)]

\* The dict built from one mapping of the parsed response.
ValidatedJob(job) ==
    [role        |-> StrV(PyStr(DictGet(job, "role", StrV(<<"Unknown Role">>)))),
     experience  |-> StrV(PyStr(DictGet(job, "experience", StrV(<<"Not specified">>)))),
     skills      |-> IF DictGet(job, "skills", NoneV).t = "list"
                     THEN DictGet(job, "skills", ListV(<<>>))
                     ELSE ListV(<<>>),
     description |-> StrV(PyStr(DictGet(job, "description",
                                        StrV(<<"No description available">>))))]

C4_CreateFallbackJobMutant(text) ==
    [role        |-> StrV(<<"Position Available">>),
     experience  |-> StrV(<<"Not specified">>),
     skills      |-> ListV(<<StrV(<<"General skills required">>)>>),
     description |-> StrV(IF Len(text) >= FallbackDescLen
                          THEN SubSeq(text, 1, FallbackDescLen) \o <<".", ".", ".">>
                          ELSE text)]

CreateFallbackJob(text) ==
    [role        |-> StrV(<<"Position Available">>),
     experience  |-> StrV(<<"Not specified">>),
     skills      |-> ListV(<<StrV(<<"General skills required">>)>>),
     description |-> StrV(IF Len(text) > FallbackDescLen
                          THEN SubSeq(text, 1, FallbackDescLen) \o <<".", ".", ".">>
                          ELSE text)]

\* The text handed to json.loads: the [...] span, else the {...} span
\* wrapped in brackets, else the whole content.
JsonStr(content) ==
    LET arr == RegexSpan(content, "[", "]")
        obj == RegexSpan(content, "{", "}")
    IN IF arr # <<>> THEN arr
       ELSE IF obj # <<>> THEN <<"[">> \o obj \o <<"]">>
       ELSE content

IsDict(x) == x.t = "dict"

\* The list built from the parsed value: the validated mappings of a list,
\* the validated mapping alone, else the fallback.
NormalizeParsed(parsed, cleaned_text) ==
    IF parsed.t = "list"
    THEN LET dicts == SelectSeq(parsed.v, IsDict)
             validated_jobs == [i \in DOMAIN dicts |-> ValidatedJob(dicts[i].v)]
         IN IF validated_jobs # <<>> THEN validated_jobs
            ELSE <<CreateFallbackJob(cleaned_text)>>
    ELSE IF parsed.t = "dict" THEN <<ValidatedJob(parsed.v)>>
    ELSE <<CreateFallbackJob(cleaned_text)>>

C6_IsBlankTextMutant(cleaned_text) == cleaned_text = <<>>

\* not cleaned_text or not cleaned_text.strip()
IsBlankText(cleaned_text) == cleaned_text = <<>> \/ Strip(cleaned_text) = <<>>

\* Chain.extract_jobs(cleaned_text) with the service answering llm:
\* the result and the calls made.
ExtractJobs(cleaned_text, llm) ==
    IF IsBlankText(cleaned_text)
    THEN [res |-> Raise("ValueError",
                        <<"Empty or invalid text provided for job extraction.">>),
          calls |-> <<>>]
    ELSE IF llm.raises
    THEN [res |-> Raise("LlmError", LlmErrorMsg), calls |-> <<"llm.invoke">>]
    ELSE LET content == Strip(llm.content)
             parsed == JsonLoads(JsonStr(content))
         IN [res |-> Return(IF parsed.ok
                            THEN NormalizeParsed(parsed.val, cleaned_text)
                            ELSE <<CreateFallbackJob(cleaned_text)>>),
             calls |-> <<"llm.invoke">>]

-----------------------------------------------------------------------------
(* chains.py: Chain.write_mail *)

Tones == {<<"formal">>, <<"casual">>, <<"professional">>, <<"friendly">>}

NoLinksSentence ==
    <<"No specific projects matched, but I have general experience in AI-based applications.">>

\* The descriptions of the links that have a non-blank one, stripped.
RECURSIVE LinkDescriptions(_)
LinkDescriptions(links) ==
    IF links = <<>> THEN <<>>
    ELSE LET rest == LinkDescriptions(Tail(links))
             link == Head(links)
         IN IF "description" \in DOMAIN link /\ Strip(link.description) # <<>>
            THEN <<Strip(link.description)>> \o rest
            ELSE rest

LinkStr(links) ==
    IF LinkDescriptions(links) # <<>>
    THEN Join(LinkDescriptions(links), <<"\n">>)
    ELSE NoLinksSentence

\* ', '.join(skills) raises TypeError unless every item is a str.
AllStr(items) == \A i \in DOMAIN items : items[i].t = "str"

JobDescParts(job) ==
    (IF Truthy(JobGet(job, "role"))
     THEN <<(<<"Role: ">> \o job.role.v)>> ELSE <<>>)
    \o (IF Truthy(JobGet(job, "experience"))
        THEN <<(<<"Experience: ">> \o job.experience.v)>> ELSE <<>>)
    \o (IF Truthy(JobGet(job, "skills")) /\ job.skills.t = "list"
        THEN <<(<<"Skills: ">>
                \o Join([i \in DOMAIN job.skills.v |-> job.skills.v[i].v], <<",", " ">>))>>
        ELSE <<>>)
    \o (IF Truthy(JobGet(job, "description"))
        THEN <<(<<"Description: ">> \o job.description.v)>> ELSE <<>>)

JoinRaises(job) ==
    Truthy(JobGet(job, "skills")) /\ job.skills.t = "list" /\ ~AllStr(job.skills.v)

MailFailedLiteral == <<"Email generation failed. Please try again.">>
MailErrorPrefix == <<"Error generating email: ">>

\* Chain.write_mail(job, links, username, tone) with the service answering
\* llm; job is a tagged value (None or a dict), username and tone are strs.
WriteMail(job, links, username, tone, llm) ==
    IF ~Truthy(job) \/ job.t # "dict"
    THEN [res |-> Raise("ValueError", <<"Invalid job data provided">>),
          calls |-> <<>>, prompt |-> NoneV]
    ELSE IF JoinRaises(job.v)
    THEN [res |-> Raise("TypeError",
                        <<"sequence item: expected str instance">>),
          calls |-> <<>>, prompt |-> NoneV]
    ELSE LET prompt ==
                 [job_description |-> Join(JobDescParts(job.v), <<"\n">>),
                  link_list |-> LinkStr(links),
                  username |-> IF Strip(username) = <<>> THEN <<"User">> ELSE username,
                  tone |-> IF tone \in Tones THEN tone ELSE <<"formal">>]
         IN [res |-> Return(StrV(
                        IF llm.raises THEN MailErrorPrefix \o LlmErrorMsg
                        ELSE IF llm.content # <<>> THEN Strip(llm.content)
                        ELSE MailFailedLiteral)),
             calls |-> <<"llm.invoke">>,
             prompt |-> DictV(prompt)]

-----------------------------------------------------------------------------
(* portfolio.py: Portfolio *)

\* A row of the dataset: [Techstack |-> str, Description |-> str].  An entry
\* of the collection: [document |-> str, description |-> str] (the id is a
\* fresh uuid and is not kept).
Row(techstack, description) == [Techstack |-> techstack, Description |-> description]
Entry(row) == [document |-> row.Techstack, description |-> row.Description]

\* The portfolio object as one record.
Store == [data |-> data, csv_file |-> csv_file, embedding_model |-> embedding_model,
          collection |-> collection, index |-> index]

\* read_csv reads an empty field as NaN, and dropna drops the row.
HasBothFields(row) == row.Techstack # <<>> /\ row.Description # <<>>

\* Portfolio._initialize: the dataset read from the CSV file (empty when the
\* file is missing or unreadable), the embedding model, and the collection,
\* which is opened only after the dataset was read and the embedding model
\* was built.
Initialize(file, embedding_ok, chroma_ok) ==
    [data |-> IF file.status = "ok" THEN SelectSeq(file.rows, HasBothFields) ELSE <<>>,
     embedding_model |-> file.status # "corrupt" /\ embedding_ok,
     collection |-> file.status # "corrupt" /\ embedding_ok /\ chroma_ok]

batch_size == 100

\* The number of batches of range(0, n, batch_size).
NumBatches(n) == (n + batch_size - 1) \div batch_size

\* documents[i : i + batch_size] of the k-th batch, k = 1, 2, ...
Batch(rows, k) ==
    SubSeq(rows, (k - 1) * batch_size + 1,
           IF k * batch_size < Len(rows) THEN k * batch_size ELSE Len(rows))

RECURSIVE BatchesUpTo(_, _)
BatchesUpTo(rows, k) ==
    IF k = 0 THEN <<>> ELSE BatchesUpTo(rows, k - 1) \o Batch(rows, k)

Entries(rows) == [i \in DOMAIN rows |-> Entry(rows[i])]

Repeat(a, n) == [i \in 1..n |-> a]

C10_PopulatedMutant(st) == FALSE

\* self.collection.count() > 0
Populated(st) == Len(st.index) > 0

\* Portfolio.load_portfolio(): count_fails says collection.count() raises;
\* fail_at = 0 says every collection.add succeeds, fail_at = k that the
\* k-th raises.  The value returned, the index afterwards, the calls made.
LoadPortfolio(st, count_fails, fail_at) ==
    IF ~st.collection \/ ~st.embedding_model
    THEN [res |-> Return(FALSE), index |-> st.index, calls |-> <<>>]
    ELSE IF st.data = <<>>
    THEN [res |-> Return(FALSE), index |-> st.index, calls |-> <<>>]
    ELSE IF count_fails
    THEN [res |-> Return(FALSE), index |-> st.index, calls |-> <<"collection.count">>]
    ELSE IF Populated(st)
    THEN [res |-> Return(TRUE), index |-> st.index, calls |-> <<"collection.count">>]
    ELSE LET n == NumBatches(Len(st.data))
             done == IF fail_at = 0 THEN n ELSE fail_at - 1
             tried == IF fail_at = 0 THEN n ELSE fail_at
         IN [res |-> Return(fail_at = 0),
             index |-> st.index \o Entries(BatchesUpTo(st.data, done)),
             calls |-> <<"collection.count">> \o Repeat("collection.add", tried)]

\* Portfolio.is_ready()
IsReady(st) == st.collection /\ st.embedding_model /\ st.data # <<>>

QueryMaxResults == 5
QueryMinResults == 2

Min(a, b) == IF a < b THEN a ELSE b
Max(a, b) == IF a > b THEN a ELSE b

\* The list comprehension over the skills: a falsy item is skipped, a str
\* is kept stripped unless blank, and any other truthy item has no strip()
\* (AttributeError).  ok = FALSE stands for that exception.
RECURSIVE ValidSkills(_)
ValidSkills(skills) ==
    IF skills = <<>> THEN [ok |-> TRUE, val |-> <<>>]
    ELSE LET skill == Head(skills)
             rest == ValidSkills(Tail(skills))
         IN IF ~Truthy(skill) THEN rest
            ELSE IF skill.t # "str" THEN [ok |-> FALSE, val |-> <<>>]
            ELSE IF Strip(skill.v) = <<>> THEN rest
            ELSE [ok |-> rest.ok, val |-> <<Strip(skill.v)>> \o rest.val]

HasDescription(meta) == meta.description # <<>>

Metadata(entries) == [i \in DOMAIN entries |-> [description |-> entries[i].description]]

C8_NoValidSkillsMutant(valid) == FALSE

\* not valid_skills
NoValidSkills(valid) == valid.val = <<>>

\* Portfolio.query_links(skills): skills is a tagged value; count_fails and
\* query_fails say the collection's call raises; first is where the
\* collection's answer starts among its entries (the ranking by similarity
\* is the collection's own).
QueryLinks(st, skills, count_fails, query_fails, first) ==
    IF ~Truthy(skills) \/ skills.t # "list"
    THEN [res |-> Return(<<>>), calls |-> <<>>]
    ELSE IF ~st.collection
    THEN [res |-> Return(<<>>), calls |-> <<>>]
    ELSE LET valid == ValidSkills(skills.v) IN
    IF ~valid.ok THEN [res |-> Return(<<>>), calls |-> <<>>]
    ELSE IF NoValidSkills(valid) THEN [res |-> Return(<<>>), calls |-> <<>>]
    ELSE IF count_fails
    THEN [res |-> Return(<<>>), calls |-> <<"collection.count">>]
    ELSE IF query_fails
    THEN [res |-> Return(<<>>), calls |-> <<"collection.count", "collection.query">>]
    ELSE LET n_results == Min(QueryMaxResults, Max(QueryMinResults, Len(st.index)))
             last == Min(Len(st.index), first + n_results - 1)
             metadatas == Metadata(SubSeq(st.index, first, last))
         IN [res |-> Return(SelectSeq(metadatas, HasDescription)),
             calls |-> <<"collection.count", "collection.query">>]

\* Portfolio.get_all_projects()
GetAllProjects(st) ==
    [i \in DOMAIN st.data |->
        [techstack |-> st.data[i].Techstack, description |-> st.data[i].Description]]

\* not techstack or not description
MissingArgument(techstack, description) == techstack = <<>> \/ description = <<>>

\* Portfolio.add_project(techstack, description): csv_fails says to_csv
\* raises, add_fails that collection.add does.
AddProject(st, techstack, description, csv_fails, add_fails) ==
    IF MissingArgument(techstack, description)
    THEN [res |-> Return(FALSE), data |-> st.data, csv_file |-> st.csv_file,
          index |-> st.index, calls |-> <<>>]
    ELSE LET new_data == Append(st.data, Row(techstack, description)) IN
    IF csv_fails
    THEN [res |-> Return(FALSE), data |-> new_data, csv_file |-> st.csv_file,
          index |-> st.index, calls |-> <<"to_csv">>]
    ELSE [res |-> Return(TRUE), data |-> new_data,
          csv_file |-> [status |-> "ok", rows |-> new_data],
          index |-> IF st.collection /\ ~add_fails
                    THEN Append(st.index, Entry(Row(techstack, description)))
                    ELSE st.index,
          calls |-> IF st.collection THEN <<"to_csv", "collection.add">>
                    ELSE <<"to_csv">>]

-----------------------------------------------------------------------------
(* utils.py: clean_text, over a page text of one-character atoms *)

LowerLetters ==
    <<"a", "b", "c", "d", "e", "f", "g", "h", "i", "j", "k", "l", "m",
      "n", "o", "p", "q", "r", "s", "t", "u", "v", "w", "x", "y", "z">>
UpperLetters ==
    <<"A", "B", "C", "D", "E", "F", "G", "H", "I", "J", "K", "L", "M",
      "N", "O", "P", "Q", "R", "S", "T", "U", "V", "W", "X", "Y", "Z">>
Range(f) == {f[i] : i \in DOMAIN f}
Letters == Range(LowerLetters) \cup Range(UpperLetters)
Digits == {"0", "1", "2", "3", "4", "5", "6", "7", "8", "9"}

\* re.IGNORECASE: a character compared in lower case
Lower(a) ==
    IF a \in Range(UpperLetters)
    THEN LowerLetters[CHOOSE i \in DOMAIN UpperLetters : UpperLetters[i] = a]
    ELSE a

\* s from position i on, and the least position >= i that satisfies a test
From(s, i) == SubSeq(s, i, Len(s))
Upto(s, i) == SubSeq(s, 1, i)

\* Does s hold, ignoring case, the word w at position i?
HasAt(s, i, w) ==
    /\ i >= 1
    /\ i + Len(w) - 1 <= Len(s)
    /\ \A k \in DOMAIN w : Lower(s[i + k - 1]) = w[k]

\* re.sub(r'<[^>]*?>', '', text): from each "<" that has a ">" after it to
\* the first such ">".
RECURSIVE RemoveTags(_)
RemoveTags(s) ==
    IF \E i \in DOMAIN s : s[i] = "<" /\ \E j \in (i + 1)..Len(s) : s[j] = ">"
    THEN LET i == FirstIndex(s, "<")
             j == CHOOSE j \in (i + 1)..Len(s) :
                      s[j] = ">" /\ \A k \in (i + 1)..(j - 1) : s[k] # ">"
         IN Upto(s, i - 1) \o RemoveTags(From(s, j + 1))
    ELSE s

\* The characters of [a-zA-Z] | [0-9] | [$-_@.&+] | [!*\\(\\),] : the range
\* $-_ runs from "$" to "_" in ASCII.
UrlChars ==
    Letters \cup Digits \cup
    {"$", "%", "&", "'", "(", ")", "*", "+", ",", "-", ".", "/", ":", ";", "<",
     "=", ">", "?", "@", "[", "\\", "]", "^", "_", "!"}

\* The length of the scheme at i: http:// or https://, 0 when neither.
SchemeLen(s, i) ==
    IF i + 6 <= Len(s) /\ SubSeq(s, i, i + 6) = <<"h", "t", "t", "p", ":", "/", "/">>
    THEN 7
    ELSE IF i + 7 <= Len(s)
            /\ SubSeq(s, i, i + 7) = <<"h", "t", "t", "p", "s", ":", "/", "/">>
    THEN 8
    ELSE 0

UrlAt(s, i) ==
    /\ SchemeLen(s, i) > 0
    /\ i + SchemeLen(s, i) <= Len(s)
    /\ s[i + SchemeLen(s, i)] \in UrlChars

\* The last position of the longest run of characters of `class` from i.
RECURSIVE RunEnd(_, _, _)
RunEnd(s, i, class) ==
    IF i <= Len(s) /\ s[i] \in class THEN RunEnd(s, i + 1, class) ELSE i - 1

\* re.sub(r'http[s]?://(...)+', '', text)
RECURSIVE RemoveUrls(_)
RemoveUrls(s) ==
    IF \E i \in DOMAIN s : UrlAt(s, i)
    THEN LET i == CHOOSE i \in DOMAIN s : UrlAt(s, i) /\ \A k \in 1..(i - 1) : ~UrlAt(s, k)
             e == RunEnd(s, i + SchemeLen(s, i), UrlChars)
         IN Upto(s, i - 1) \o RemoveUrls(From(s, e + 1))
    ELSE s

\* \b[A-Za-z0-9._%+-]+@[A-Za-z0-9.-]+\.[A-Z|a-z]{2,}\b
WordChars == Letters \cup Digits \cup {"_"}
LocalChars == Letters \cup Digits \cup {".", "_", "%", "+", "-"}
DomainChars == Letters \cup Digits \cup {".", "-"}
TldChars == Letters \cup {"|"}

IsWord(s, i) == i >= 1 /\ i <= Len(s) /\ s[i] \in WordChars
\* \b between positions i - 1 and i
Boundary(s, i) == IsWord(s, i - 1) # IsWord(s, i)

\* An address from p with its "@" at q: the characters before it.
EmailLocal(s, p, q) ==
    /\ p < q
    /\ s[q] = "@"
    /\ Boundary(s, p)
    /\ \A x \in p..(q - 1) : s[x] \in LocalChars

\* ... its last "." at k and its end at e.
EmailTail(s, q, k, e) ==
    /\ s[k] = "."
    /\ \A x \in (q + 1)..(k - 1) : s[x] \in DomainChars
    /\ \A x \in (k + 1)..e : s[x] \in TldChars
    /\ Boundary(s, e + 1)

EmailDot(s, q, k) == \E e \in (k + 2)..Len(s) : EmailTail(s, q, k, e)

EmailFrom(s, p) ==
    \E q \in (p + 1)..Len(s) :
        EmailLocal(s, p, q) /\ \E k \in (q + 2)..Len(s) : EmailDot(s, q, k)

\* The end of the match the regex engine makes from p: the domain part as
\* long as it can be, then the last part as long as it can be.
EmailEnd(s, p) ==
    LET q == CHOOSE q \in (p + 1)..Len(s) : EmailLocal(s, p, q)
        k == CHOOSE k \in (q + 2)..Len(s) :
                 EmailDot(s, q, k) /\ \A k2 \in (k + 1)..Len(s) : ~EmailDot(s, q, k2)
    IN CHOOSE e \in (k + 2)..Len(s) :
           EmailTail(s, q, k, e) /\ \A e2 \in (e + 1)..Len(s) : ~EmailTail(s, q, k, e2)

RECURSIVE RemoveEmails(_)
RemoveEmails(s) ==
    IF (\E i \in DOMAIN s : s[i] = "@") /\ \E p \in DOMAIN s : EmailFrom(s, p)
    THEN LET p == CHOOSE p \in DOMAIN s :
                      EmailFrom(s, p) /\ \A x \in 1..(p - 1) : ~EmailFrom(s, x)
         IN Upto(s, p - 1) \o RemoveEmails(From(s, EmailEnd(s, p) + 1))
    ELSE s

\* <name[^>]*>.*?</name> with re.DOTALL | re.IGNORECASE, opening at i: the
\* position of the opening tag's ">" and of the first closing tag after it,
\* 0 when there is none.
OpenEnd(s, i, name) ==
    IF HasAt(s, i, <<"<">> \o name)
       /\ \E j \in (i + 1 + Len(name))..Len(s) : s[j] = ">"
    THEN CHOOSE j \in (i + 1 + Len(name))..Len(s) :
             s[j] = ">" /\ \A k \in (i + 1 + Len(name))..(j - 1) : s[k] # ">"
    ELSE 0

CloseTag(name) == <<"<", "/">> \o name \o <<">">>

BlockAt(s, i, name) ==
    /\ OpenEnd(s, i, name) > 0
    /\ \E c \in (OpenEnd(s, i, name) + 1)..Len(s) : HasAt(s, c, CloseTag(name))

RECURSIVE RemoveBlocks(_, _)
RemoveBlocks(s, name) ==
    IF \E i \in DOMAIN s : BlockAt(s, i, name)
    THEN LET i == CHOOSE i \in DOMAIN s :
                      BlockAt(s, i, name) /\ \A k \in 1..(i - 1) : ~BlockAt(s, k, name)
             c == CHOOSE c \in (OpenEnd(s, i, name) + 1)..Len(s) :
                      /\ HasAt(s, c, CloseTag(name))
                      /\ \A k \in (OpenEnd(s, i, name) + 1)..(c - 1) :
                             ~HasAt(s, k, CloseTag(name))
         IN Upto(s, i - 1) \o RemoveBlocks(From(s, c + Len(CloseTag(name))), name)
    ELSE s

\* re.sub(r'[^a-zA-Z0-9\s.#+\-(),:;]', ' ', text)
KeptChars ==
    Letters \cup Digits \cup Whitespace \cup {".", "#", "+", "-", "(", ")", ",", ":", ";"}
ReplaceOthers(s) == [i \in DOMAIN s |-> IF s[i] \in KeptChars THEN s[i] ELSE " "]

\* re.sub(r'\s+', ' ', text)
RECURSIVE CollapseWhitespace(_)
CollapseWhitespace(s) ==
    IF s = <<>> THEN <<>>
    ELSE IF Head(s) \in Whitespace
    THEN <<" ">> \o CollapseWhitespace(From(s, RunEnd(s, 1, Whitespace) + 1))
    ELSE <<Head(s)>> \o CollapseWhitespace(Tail(s))

clean_text(text) ==
    IF text = <<>> THEN <<>>
    ELSE Strip(CollapseWhitespace(ReplaceOthers(
             RemoveBlocks(RemoveBlocks(RemoveEmails(RemoveUrls(RemoveTags(text))),
                                       <<"s", "c", "r", "i", "p", "t">>),
                          <<"s", "t", "y", "l", "e">>))))

-----------------------------------------------------------------------------
(* The inputs the operations are run on *)

\* len(cleaned_data.strip()) < 50, of main.py
MinContentLen == 50

\* The longest response enumerated lexeme by lexeme.
MaxRespLen == 3
\* How far past the truncation length the texts for extract_jobs go.
MaxTextOver == 1
\* How many rows add_project may add to a dataset.
MaxAdds == 1

EnumTok == {"[", "]", "{", "}", ",", " ", "role:", "skills:", "'Go'", "''", "1", "txt"}
EnumResponses == UNION {[1..k -> EnumTok] : k \in 0..MaxRespLen}

EngineerObject ==
    <<"{", "role:", "'Engineer'", ",", "skills:", "[", "'Go'", "]", "}">>
FullJob ==
    <<"{", "role:", "'Engineer'", ",", "experience:", "'2 years'", ",",
      "skills:", "[", "'Go'", ",", "' '", "]", ",",
      "description:", "'Builds things'", "}">>

\* The responses every text is tried with.
ChosenResponses ==
    {<<>>, <<"[", "]">>, <<"{", "}">>, <<" ", "'Go'", "\n">>,
     EngineerObject,
     <<"[">> \o FullJob \o <<"]">>,
     <<"txt", " ", "[">> \o FullJob \o <<"]", "\n", "txt">>,
     <<" ", "{", "role:", "'Engineer'", ",", "experience:", "null", "}", "\n">>,
     <<"{", "role:", "'Go'", ",", "role:", "'Engineer'", "}">>,
     <<"[", "{", "role:", "'Engineer'", ",", "skills:", "[", "1", "]", "}", "]">>,
     <<"[", "{", "skills:", "'Go'", ",", "description:", "[", "'Go'", ",", "0", "]", "}", "]">>,
     <<"[", "{", "role:", "'Engineer'", "}", ",", "1", ",", "{", "role:", "'Go'", "}", "]">>,
     <<"[", "1", ",", "'Go'", ",", "null", ",", "[", "]", "]">>,
     <<"[", "{", "role:", "'Engineer'", "}", ",", "]">>,
     <<"txt", " ", "txt">>}

\* The responses the handler's extraction is run on.
HandlerResponses ==
    {<<"[">> \o FullJob \o <<"]">>,
     EngineerObject,
     <<"[", "{", "role:", "'Engineer'", ",", "skills:", "[", "1", "]", "}", "]">>,
     <<"[", "{", "role:", "'Go'", "}", ",", "{", "}", "]">>,
     <<"[", "]">>}

\* The contents the service answers the e-mail prompt with.
MailResponses == {<<>>, <<" ", "\n">>, <<"\n", "Dear", " ", "team", ",", " ">>}

\* n characters of running text
Filler(n) == [i \in 1..n |-> LowerLetters[((i - 1) % 3) + 1]]

\* The texts extract_jobs is run on: blank ones, short ones, and ones around
\* the truncation length.
BlankTexts == {<<>>, <<" ">>, <<"\n", " ", "\t">>}
ShortTexts == {<<"a">>, <<" ", "a", "b", " ">>}
LongTexts == {Filler(n) : n \in (FallbackDescLen - 1)..(FallbackDescLen + MaxTextOver)}

\* The pages a fetch returns: one that cleans to too little text, one that
\* cleans to just enough, one with markup, an address and a link.
Pages ==
    {<<"<", "b", ">">> \o Filler(MinContentLen - 1) \o <<"<", "/", "b", ">", "\n">>,
     <<"<", "p", ">">> \o Filler(MinContentLen) \o <<"<", "/", "p", ">">>,
     <<"<", "h", "1", ">", "J", "o", "b", "s", "<", "/", "h", "1", ">", "\n", "\n">>
        \o Filler(MinContentLen) \o
        <<" ", "h", "r", "@", "x", ".", "i", "o", " ",
          "h", "t", "t", "p", "s", ":", "/", "/", "x", ".", "i", "o", "/", "j", " ",
          "C", "+", "+", " ", "&", " ", "G", "o", "!">>}

\* The link lists, user names and tones write_mail is run on.
LinkLists ==
    {<<>>,
     <<[description |-> <<"Chatbot">>]>>,
     <<[description |-> <<" ">>], [description |-> <<" ", "Chatbot", " ">>],
       [description |-> <<"Search", " ", "engine">>]>>}
Usernames == {<<>>, <<" ">>, <<"Ann">>}
ToneInputs == {<<"casual">>, <<"bogus">>}

\* The skills arguments query_links is run on.
SkillsInputs ==
    {NoneV, StrV(<<"Go">>), ListV(<<>>),
     ListV(<<StrV(<<" ", " ">>)>>),
     ListV(<<StrV(<<>>), StrV(<<"\t">>), StrV(<<" ", "\n">>)>>),
     ListV(<<StrV(<<"Go">>)>>),
     ListV(<<StrV(<<" ">>), StrV(<<" ", "Go", " ">>), StrV(<<"SQL">>)>>),
     ListV(<<NumV(<<"0">>), NoneV>>),
     ListV(<<StrV(<<"Go">>), NumV(<<"1">>)>>)}

\* The arguments add_project is run on: <<techstack, description>>.
ProjectInputs ==
    {<<<<>>, <<"Chatbot">>>>, <<<<"Go">>, <<>>>>, <<<<>>, <<>>>>,
     <<<<" ", " ">>, <<"Chatbot">>>>, <<<<"Go">>, <<"\t">>>>,
     <<<<"Go">>, <<"Chatbot">>>>}

\* The CSV files a process may start with: none, an unreadable one, rows
\* of which one lacks a field, and more rows than one batch.
SomeRow(i) ==
    Row(<<"Python", ",", " ", LowerLetters[((i - 1) % 3) + 1]>>,
        <<"Project", " ", LowerLetters[((i - 1) % 2) + 1]>>)
Files ==
    {[status |-> "missing", rows |-> <<>>],
     [status |-> "corrupt", rows |-> <<>>],
     [status |-> "ok", rows |-> <<SomeRow(1), Row(<<"Go">>, <<>>)>>],
     [status |-> "ok", rows |-> [i \in 1..(batch_size + 1) |-> SomeRow(i)]]}

\* The texts clean_text is run on: up to MaxPieces pieces in a row, each an
\* opening or closing script or style tag, another tag, or running text.
MaxPieces == 3
Pieces ==
    {<<"<", "s", "c", "r", "i", "p", "t", ">">>,
     <<"<", "/", "s", "c", "r", "i", "p", "t", ">">>,
     <<"<", "S", "t", "y", "l", "e", " ", "a", ">">>,
     <<"<", "/", "s", "t", "y", "l", "e", ">">>,
     <<"<", "b", ">">>,
     <<"x", "=", "1", ";">>,
     <<" ", "G", "o", " ">>}
RECURSIVE Concat(_)
Concat(parts) == IF parts = <<>> THEN <<>> ELSE Head(parts) \o Concat(Tail(parts))
RawTexts == {Concat(parts) : parts \in UNION {[1..k -> Pieces] : k \in 0..MaxPieces}}

\* Whether the embedding model and the collection can be built.
Setups == {<<TRUE, TRUE>>, <<TRUE, FALSE>>, <<FALSE, TRUE>>}

\* What the persistent collection may hold when a process starts.
PersistedIndexes == {<<>>, <<Entry(SomeRow(1)), Entry(SomeRow(2))>>}

-----------------------------------------------------------------------------
(* main.py: the cache and the two actions of index() *)

EmptyCache ==
    [last_job |-> NoneV, last_links |-> NoneV, last_username |-> NoneV,
     last_tone |-> NoneV, last_url |-> NoneV]

BlankPage == [email |-> NoneV, error |-> NoneV, jobs_found |-> 0]

NotInitializedMsg ==
    <<"Application components not properly initialized. Please check your configuration.">>
NoUrlMsg == <<"Please provide a valid job URL.">>
NoPreviousDataMsg == <<"No previous data found. Please generate an email first.">>

\* A request as op keeps it, and one that reached write_mail: the arguments
\* write_mail was given and what the language model did with its prompt.
Request(name) == [name |-> name]
Composing(name, job, links, username, tone, llm) ==
    [name |-> name, job |-> job, links |-> links, username |-> username,
     tone |-> tone, llm |-> llm]

\* What the handler leaves behind: the request, the page rendered, the
\* cache, the index (load_portfolio may have filled it) and the calls made.
Respond(request, rendered, cache, entries, made) ==
    /\ op' = request
    /\ page' = rendered
    /\ cached_data' = cache
    /\ index' = entries
    /\ calls' = made
    /\ ret' = Return(NoneV)
    /\ UNCHANGED <<initialized, data, csv_file, embedding_model, collection>>

\* not email or email.strip() == ""
EmailMissing(email) == email = <<>> \/ Strip(email) = <<>>

C2_GenerateFailsMutant(msg, jobs_found) ==
    [page |-> [email |-> NoneV,
               error |-> StrV(<<"Error processing job posting: ">> \o msg),
               jobs_found |-> jobs_found],
     cache |-> EmptyCache]

\* except Exception as e: the error is rendered, the cache is as it was.
GenerateFails(msg, jobs_found) ==
    [page |-> [email |-> NoneV,
               error |-> StrV(<<"Error processing job posting: ">> \o msg),
               jobs_found |-> jobs_found],
     cache |-> cached_data]

C14_GenerateSucceedsMutant(email, job, links, username, tone, url, jobs_found) ==
    [page |-> [email |-> StrV(email), error |-> NoneV, jobs_found |-> jobs_found],
     cache |-> [last_job |-> DictV(job), last_links |-> ListV(links),
                last_username |-> StrV(<<>>), last_tone |-> StrV(tone),
                last_url |-> StrV(url)]]

\* cached_data.update({...}); email_result = email
GenerateSucceeds(email, job, links, username, tone, url, jobs_found) ==
    [page |-> [email |-> StrV(email), error |-> NoneV, jobs_found |-> jobs_found],
     cache |-> [last_job |-> DictV(job), last_links |-> ListV(links),
                last_username |-> StrV(username), last_tone |-> StrV(tone),
                last_url |-> StrV(url)]]

\* The form of a POST: request.form.get(...) of the three fields.
Forms ==
    {[job_url |-> <<" ">>, username |-> <<"Ann">>, tone |-> <<"casual">>],
     [job_url |-> <<" ", "http://jobs.example/careers">>, username |-> <<" ">>,
      tone |-> <<"bogus">>],
     [job_url |-> <<"http://jobs.example/careers">>, username |-> <<"Ann", " ">>,
      tone |-> <<" ", "casual">>]}

\* WebBaseLoader([url]).load(): it raises, or returns the documents.
FetchRaises == [raises |-> TRUE, docs |-> <<>>]
Fetched(docs) == [raises |-> FALSE, docs |-> docs]
FetchErrorMsg == <<"Failed to fetch the page.">>

\* Which calls of load_portfolio reach the collection: count(), and add().
LoadCounts(st) == st.collection /\ st.embedding_model /\ st.data # <<>>
LoadAdds(st) == LoadCounts(st) /\ ~Populated(st)

\* The rest of the try block once the page text is cleaned: load the
\* portfolio, extract, query, compose, cache.  Each choice of what a
\* collaborator does is made only where the collaborator is called; a
\* result is bound by \E over a singleton, so that it is computed once.
GenerateFromText(cleaned_data, url, username, tone, made) ==
    \E st0 \in {Store} :
    \E count_fails \in IF LoadCounts(st0) THEN BOOLEAN ELSE {FALSE} :
    \E fail_at \in IF LoadAdds(st0) /\ ~count_fails
                   THEN 0..NumBatches(Len(data)) ELSE {0} :
    \E load \in {LoadPortfolio(st0, count_fails, fail_at)} :
    \E st \in {[st0 EXCEPT !.index = load.index]} :
    \E llm1 \in {LlmRaises} \cup {LlmSays(c) : c \in HandlerResponses} :
    \E ex \in {ExtractJobs(cleaned_data, llm1)} :
    \E made2 \in {made \o <<"load_portfolio">> \o load.calls
                       \o <<"extract_jobs">> \o ex.calls} :
    IF ex.res.raised # ""
    THEN \E out \in {GenerateFails(ex.res.msg, 0)} :
             Respond(Request("generate"), out.page, out.cache, st.index, made2)
    ELSE
    \E jobs \in {ex.res.val} :
    IF jobs = <<>>
    THEN \E out \in {GenerateFails(
                 <<"No job postings could be extracted from the webpage. Please verify the URL contains job listings.">>,
                 Len(jobs))} :
             Respond(Request("generate"), out.page, out.cache, st.index, made2)
    ELSE
    \E job \in {jobs[1]} :
    \E skills \in {IF JobGet(job, "skills").t = "list"
                   THEN JobGet(job, "skills") ELSE ListV(<<>>)} :
    \E asks \in {IsReady(st) /\ Truthy(skills)} :
    \E q_count_fails \in IF asks THEN BOOLEAN ELSE {FALSE} :
    \E q_query_fails \in IF asks /\ ~q_count_fails THEN BOOLEAN ELSE {FALSE} :
    \E query \in {QueryLinks(st, skills, q_count_fails, q_query_fails, 1)} :
    \E links \in {IF asks THEN query.res.val ELSE <<>>} :
    \E llm2 \in IF JoinRaises(job)
                THEN {LlmRaises}
                ELSE {LlmRaises} \cup {LlmSays(c) : c \in MailResponses} :
    \E mail \in {WriteMail(DictV(job), links, username, tone, llm2)} :
    \E made4 \in {made2 \o (IF asks THEN <<"query_links">> \o query.calls ELSE <<>>)
                        \o <<"write_mail">> \o mail.calls} :
    \E out \in {IF mail.res.raised # ""
                THEN GenerateFails(mail.res.msg, Len(jobs))
                ELSE IF EmailMissing(mail.res.val.v)
                THEN GenerateFails(<<"Email generation failed. Please try again.">>,
                                   Len(jobs))
                ELSE GenerateSucceeds(mail.res.val.v, job, links, username, tone, url,
                                      Len(jobs))} :
    Respond(Composing("generate", DictV(job), links, username, tone, llm2),
            out.page, out.cache, st.index, made4)

\* clean_text over the pages fetched, as a table
CleanedPages == {<<pg, clean_text(pg)>> : pg \in Pages}
CleanedPage(pg) == (CHOOSE entry \in CleanedPages : entry[1] = pg)[2]

\* POST with "generate" in the form
Generate ==
    \E form \in Forms :
    IF ~initialized
    THEN Respond(Request("generate"), [BlankPage EXCEPT !.error = StrV(NotInitializedMsg)],
                 cached_data, index, <<>>)
    ELSE
    \E url \in {Strip(form.job_url)} :
    \E username \in {IF Strip(form.username) = <<>> THEN <<"User">>
                     ELSE Strip(form.username)} :
    \E tone \in {IF Strip(form.tone) \in Tones THEN Strip(form.tone) ELSE <<"formal">>} :
    IF url = <<>>
    THEN Respond(Request("generate"), [BlankPage EXCEPT !.error = StrV(NoUrlMsg)],
                 cached_data, index, <<>>)
    ELSE
    \E fetch \in {FetchRaises, Fetched(<<>>)} \cup {Fetched(<<pg>>) : pg \in Pages} :
    IF fetch.raises
    THEN \E out \in {GenerateFails(FetchErrorMsg, 0)} :
             Respond(Request("generate"), out.page, out.cache, index, <<"loader.load">>)
    ELSE IF fetch.docs = <<>>
    THEN \E out \in {GenerateFails(
                 <<"No content could be loaded from the provided URL.">>, 0)} :
             Respond(Request("generate"), out.page, out.cache, index, <<"loader.load">>)
    ELSE
    \E cleaned_data \in {CleanedPage(fetch.docs[1])} :
    IF cleaned_data = <<>> \/ Len(Strip(cleaned_data)) < MinContentLen
    THEN \E out \in {GenerateFails(
                 <<"Insufficient content extracted from the webpage. Please check if the URL contains job postings.">>,
                 0)} :
             Respond(Request("generate"), out.page, out.cache, index,
                     <<"loader.load", "clean_text">>)
    ELSE GenerateFromText(cleaned_data, url, username, tone,
                          <<"loader.load", "clean_text">>)

C1_CacheMissingMutant(cache) ==
    Truthy(cache.last_job) /\ Truthy(cache.last_username) /\ Truthy(cache.last_tone)

\* not all([cached_data["last_job"], cached_data["last_username"],
\*          cached_data["last_tone"]])
CacheMissing(cache) ==
    ~(Truthy(cache.last_job) /\ Truthy(cache.last_username) /\ Truthy(cache.last_tone))

C11_CachedLinksMutant(cache) == <<>>

\* cached_data["last_links"] or []
CachedLinks(cache) == IF Truthy(cache.last_links) THEN cache.last_links.v ELSE <<>>

RegenerateFails(msg) ==
    [email |-> NoneV, error |-> StrV(<<"Regeneration failed: ">> \o msg), jobs_found |-> 0]

\* POST with "regenerate" (and no "generate") in the form
Regenerate ==
    IF ~initialized
    THEN Respond(Request("regenerate"), [BlankPage EXCEPT !.error = StrV(NotInitializedMsg)],
                 cached_data, index, <<>>)
    ELSE IF CacheMissing(cached_data)
    THEN Respond(Request("regenerate"), [BlankPage EXCEPT !.error = StrV(NoPreviousDataMsg)],
                 cached_data, index, <<>>)
    ELSE
    \E llm \in {LlmRaises} \cup {LlmSays(c) : c \in MailResponses} :
    \E links \in {CachedLinks(cached_data)} :
    \E mail \in {WriteMail(cached_data.last_job, links, cached_data.last_username.v,
                           cached_data.last_tone.v, llm)} :
    \E rendered \in
        {IF mail.res.raised # "" THEN RegenerateFails(mail.res.msg)
         ELSE IF EmailMissing(mail.res.val.v)
         THEN RegenerateFails(<<"Email regeneration failed. Please try again.">>)
         ELSE [email |-> mail.res.val, error |-> NoneV, jobs_found |-> 1]} :
    Respond(Composing("regenerate", cached_data.last_job, links,
                      cached_data.last_username.v, cached_data.last_tone.v, llm),
            rendered, cached_data, index, <<"write_mail">> \o mail.calls)

-----------------------------------------------------------------------------
(* The specifications *)

\* The portfolio built by Portfolio() over a CSV file and a persistent
\* collection.
StoreInit(file, embedding_ok, chroma_ok, entries) ==
    LET made == Initialize(file, embedding_ok, chroma_ok) IN
    /\ csv_file = file
    /\ data = made.data
    /\ embedding_model = made.embedding_model
    /\ collection = made.collection
    /\ index = entries

Idle ==
    /\ op = Request("init")
    /\ ret = Return(NoneV)
    /\ calls = <<>>
    /\ page = BlankPage
    /\ cached_data = EmptyCache

\* The web application: the process starts with its components built or
\* not, over some CSV file and some persistent collection, and serves
\* Generate and Regenerate requests.
Init ==
    /\ Idle
    /\ initialized \in BOOLEAN
    /\ \E file \in {f \in Files : Len(f.rows) <= batch_size},
          setup \in Setups, entries \in PersistedIndexes :
          IF initialized
          THEN StoreInit(file, setup[1], setup[2], entries)
          ELSE StoreInit([status |-> "missing", rows |-> <<>>], FALSE, FALSE, <<>>)

Next == Generate \/ Regenerate

Spec == Init /\ [][Next]_vars

\* Chain on its own: extract_jobs on a text and a response (every text with
\* the chosen responses, one text with every response enumerated), then
\* write_mail on a job it returned.
ChainInit ==
    /\ initialized = TRUE
    /\ StoreInit([status |-> "missing", rows |-> <<>>], FALSE, FALSE, <<>>)
    /\ ret = Return(NoneV)
    /\ calls = <<>>
    /\ page = BlankPage
    /\ cached_data = EmptyCache
    /\ \E input \in ((BlankTexts \cup ShortTexts \cup LongTexts)
                        \X ({LlmRaises} \cup {LlmSays(c) : c \in ChosenResponses}))
                   \cup ({<<"a">>} \X {LlmSays(c) : c \in EnumResponses}) :
          op = [name |-> "input", cleaned_text |-> input[1], llm |-> input[2]]

ExtractJobsStep ==
    /\ op.name = "input"
    /\ LET ex == ExtractJobs(op.cleaned_text, op.llm) IN
       /\ op' = [op EXCEPT !.name = "extract_jobs"]
       /\ ret' = ex.res
       /\ calls' = ex.calls
    /\ UNCHANGED <<initialized, cached_data, data, csv_file, embedding_model,
                   collection, index, page>>

WriteMailStep ==
    /\ op.name = "extract_jobs"
    /\ ret.raised = ""
    /\ \E i \in DOMAIN ret.val, links \in LinkLists, username \in Usernames,
          tone \in ToneInputs, llm \in {LlmRaises} \cup {LlmSays(c) : c \in MailResponses} :
          LET mail == WriteMail(DictV(ret.val[i]), links, username, tone, llm) IN
          /\ op' = [name |-> "write_mail", job |-> ret.val[i], links |-> links,
                    username |-> username, tone |-> tone, llm |-> llm,
                    prompt |-> mail.prompt]
          /\ ret' = mail.res
          /\ calls' = mail.calls
    /\ UNCHANGED <<initialized, cached_data, data, csv_file, embedding_model,
                   collection, index, page>>

ChainNext == ExtractJobsStep \/ WriteMailStep

SpecChain == ChainInit /\ [][ChainNext]_vars

\* clean_text on its own: one call on a raw text.
CleanInit ==
    /\ initialized = TRUE
    /\ StoreInit([status |-> "missing", rows |-> <<>>], FALSE, FALSE, <<>>)
    /\ ret = Return(NoneV)
    /\ calls = <<>>
    /\ page = BlankPage
    /\ cached_data = EmptyCache
    /\ \E text \in RawTexts : op = [name |-> "input", text |-> text]

CleanTextStep ==
    /\ op.name = "input"
    /\ op' = [op EXCEPT !.name = "clean_text"]
    /\ ret' = Return(StrV(clean_text(op.text)))
    /\ UNCHANGED <<initialized, cached_data, data, csv_file, embedding_model,
                   collection, index, calls, page>>

CleanNext == CleanTextStep

SpecClean == CleanInit /\ [][CleanNext]_vars

\* Portfolio on its own: any sequence of its operations over any CSV file
\* and persistent collection.
PortfolioInit ==
    /\ Idle
    /\ initialized = TRUE
    /\ \E file \in Files, setup \in Setups, entries \in PersistedIndexes :
          StoreInit(file, setup[1], setup[2], entries)

LoadPortfolioStep ==
    \E count_fails \in BOOLEAN, fail_at \in 0..NumBatches(Len(data)) :
    \E load \in {LoadPortfolio(Store, count_fails, fail_at)} :
        /\ op' = [name |-> "load_portfolio", count_fails |-> count_fails,
                  fail_at |-> fail_at]
        /\ ret' = load.res
        /\ calls' = load.calls
        /\ index' = load.index
        /\ UNCHANGED <<initialized, cached_data, data, csv_file, embedding_model,
                       collection, page>>

\* The places the collection's answer may start at.
QueryFirsts(st) ==
    {1, Max(1, Len(st.index) + 1
               - Min(QueryMaxResults, Max(QueryMinResults, Len(st.index))))}

QueryLinksStep ==
    \E skills \in SkillsInputs, count_fails \in BOOLEAN, query_fails \in BOOLEAN,
       first \in QueryFirsts(Store) :
    \E query \in {QueryLinks(Store, skills, count_fails, query_fails, first)} :
        /\ op' = [name |-> "query_links", skills |-> skills]
        /\ ret' = query.res
        /\ calls' = query.calls
        /\ UNCHANGED <<initialized, cached_data, data, csv_file, embedding_model,
                       collection, index, page>>

\* The most rows a dataset of n rows is let grow to here.
RowCap(n) == IF n > batch_size THEN batch_size + 1 + MaxAdds ELSE 1 + MaxAdds

AddProjectStep ==
    \E args \in ProjectInputs, csv_fails \in BOOLEAN, add_fails \in BOOLEAN :
    \E add \in {AddProject(Store, args[1], args[2], csv_fails, add_fails)} :
        /\ Len(add.data) <= RowCap(Len(data))
        /\ op' = [name |-> "add_project", techstack |-> args[1],
                  description |-> args[2]]
        /\ ret' = add.res
        /\ calls' = add.calls
        /\ data' = add.data
        /\ csv_file' = add.csv_file
        /\ index' = add.index
        /\ UNCHANGED <<initialized, cached_data, embedding_model, collection, page>>

GetAllProjectsStep ==
    /\ op' = [name |-> "get_all_projects"]
    /\ ret' = Return(GetAllProjects(Store))
    /\ calls' = <<>>
    /\ UNCHANGED <<initialized, cached_data, data, csv_file, embedding_model,
                   collection, index, page>>

PortfolioNext ==
    LoadPortfolioStep \/ QueryLinksStep \/ AddProjectStep \/ GetAllProjectsStep

SpecPortfolio == PortfolioInit /\ [][PortfolioNext]_vars

\* The same over a collection that holds nothing when the process starts.
FreshInit == PortfolioInit /\ index = <<>>

SpecFreshPortfolio == FreshInit /\ [][PortfolioNext]_vars

-----------------------------------------------------------------------------
(* The claims *)

Called(made, what) == \E i \in DOMAIN made : made[i] = what
IsBlank(s) == \A i \in DOMAIN s : s[i] \in Whitespace

\* C1, as stated: a Regenerate request made while the cache is still empty
\* renders the "No previous data found" error and does not call write_mail.
C1_EmptyCacheRegenerateSaysNoData ==
    [][(cached_data = EmptyCache /\ op'.name = "regenerate")
        => (/\ page'.error = StrV(NoPreviousDataMsg)
            /\ ~Called(calls', "write_mail"))]_vars

\* C1, amended: a Regenerate request made while the cache is still empty
\* never calls write_mail nor the language model and renders no e-mail; it
\* renders the "No previous data found" error when the components were
\* built at start-up, and the "not properly initialized" error otherwise.
C1_EmptyCacheRegenerateNeverComposes ==
    [][(cached_data = EmptyCache /\ op'.name = "regenerate")
        => (/\ ~Called(calls', "write_mail")
            /\ ~Called(calls', "llm.invoke")
            /\ page'.email = NoneV
            /\ page'.error = StrV(IF initialized THEN NoPreviousDataMsg
                                  ELSE NotInitializedMsg))]_vars

C1_Witness ==
    /\ initialized
    /\ op.name = "regenerate"
    /\ cached_data = EmptyCache
    /\ page.error = StrV(NoPreviousDataMsg)
    /\ calls = <<>>

\* C2: a Generate request that ends by rendering an error leaves the five
\* cache slots as they were.
C2_FailedGenerateKeepsCache ==
    [][(op'.name = "generate" /\ page'.error # NoneV)
        => cached_data' = cached_data]_vars

\* A Generate that failed in the composer after an earlier one had filled
\* the cache.
C2_Witness ==
    /\ op.name = "generate"
    /\ page.error = StrV(<<"Error processing job posting: ">>
                         \o <<"sequence item: expected str instance">>)
    /\ Called(calls, "write_mail")
    /\ cached_data # EmptyCache

\* C3: every record extract_jobs returns has the four fields, role,
\* experience and description being strs and skills a list.
C3_RecordsComplete ==
    (op.name = "extract_jobs" /\ ret.raised = "")
    => \A i \in DOMAIN ret.val :
          /\ DOMAIN ret.val[i] = JobKeys
          /\ ret.val[i].skills.t = "list"
          /\ \A k \in JobKeys \ {"skills"} : ret.val[i][k].t = "str"

\* The response held a mapping without a role and with a skills value that
\* is no list, and the record has both fields all the same.
C3_Witness ==
    /\ op.name = "extract_jobs"
    /\ ret.raised = ""
    /\ op.llm.content =
          <<"[", "{", "skills:", "'Go'", ",", "description:",
            "[", "'Go'", ",", "0", "]", "}", "]">>
    /\ Len(ret.val) = 1
    /\ ret.val[1].role = StrV(<<"Unknown Role">>)
    /\ ret.val[1].skills = ListV(<<>>)

\* The fallback record as C4 words it.
C4_Fallback(text) ==
    [role        |-> StrV(<<"Position Available">>),
     experience  |-> StrV(<<"Not specified">>),
     skills      |-> ListV(<<StrV(<<"General skills required">>)>>),
     description |-> StrV(IF Len(text) <= FallbackDescLen THEN text
                          ELSE [i \in 1..(FallbackDescLen + 3) |->
                                    IF i <= FallbackDescLen THEN text[i] ELSE "."])]

\* Parsing the response fails or yields no mapping element.
C4_NoMapping(content) ==
    LET parsed == JsonLoads(JsonStr(Strip(content))) IN
    \/ ~parsed.ok
    \/ parsed.val.t \notin {"list", "dict"}
    \/ parsed.val.t = "list" /\ \A i \in DOMAIN parsed.val.v : parsed.val.v[i].t # "dict"

\* C4: for a non-blank text and any response, extract_jobs does not raise,
\* and when parsing fails or yields no mapping element (a response of
\* exactly [] included) it returns the one fallback record, whose
\* description is the text, cut to its first 500 characters and "..." when
\* it is longer.
C4_ParseFailureFallsBack ==
    (op.name = "extract_jobs" /\ ~IsBlank(op.cleaned_text) /\ ~op.llm.raises)
    => /\ ret.raised = ""
       /\ (C4_NoMapping(op.llm.content) \/ op.llm.content = <<"[", "]">>)
            => ret.val = <<C4_Fallback(op.cleaned_text)>>

\* A text longer than 500 characters, a response of exactly [].
C4_Witness ==
    /\ op.name = "extract_jobs"
    /\ Len(op.cleaned_text) > FallbackDescLen
    /\ ret.raised = ""
    /\ op.llm.content = <<"[", "]">>
    /\ Len(ret.val) = 1
    /\ Len(ret.val[1].description.v) = FallbackDescLen + 3

\* The response is one JSON object and nothing else.
C5_BareObject(content) ==
    LET parsed == JsonLoads(Strip(content)) IN parsed.ok /\ parsed.val.t = "dict"

\* C5: when the response is a single JSON object outside any array,
\* extract_jobs returns one record built from that object: the fields the
\* object has keep their values (skills when it is a list), experience
\* defaults to "Not specified" and description to "No description
\* available".
C5_BareObjectIsUsed ==
    (op.name = "extract_jobs" /\ ret.raised = "" /\ C5_BareObject(op.llm.content))
    => LET obj == JsonLoads(Strip(op.llm.content)).val.v IN
       /\ Len(ret.val) = 1
       /\ \A k \in {"role", "experience", "description"} :
             HasKey(obj, k) => ret.val[1][k] = StrV(PyStr(DictGet(obj, k, NoneV)))
       /\ (HasKey(obj, "skills") /\ DictGet(obj, "skills", NoneV).t = "list")
             => ret.val[1].skills = DictGet(obj, "skills", NoneV)
       /\ ~HasKey(obj, "experience")
             => ret.val[1].experience = StrV(<<"Not specified">>)
       /\ ~HasKey(obj, "description")
             => ret.val[1].description = StrV(<<"No description available">>)

\* C6: extract_jobs on an empty or whitespace-only text raises ValueError
\* and has made no call to the language model.
C6_BlankTextRejected ==
    (op.name = "extract_jobs" /\ IsBlank(op.cleaned_text))
    => (ret.raised = "ValueError" /\ ~Called(calls, "llm.invoke") /\ calls = <<>>)

C6_Witness ==
    /\ op.name = "extract_jobs"
    /\ op.cleaned_text = <<"\n", " ", "\t">>
    /\ ~op.llm.raises
    /\ ret.raised = "ValueError"

\* Does s begin with prefix?
BeginsWith(s, prefix) ==
    Len(s) >= Len(prefix) /\ SubSeq(s, 1, Len(prefix)) = prefix

\* C7: write_mail on a record extract_jobs returned, with any links, user
\* name and tone, does not raise whatever the language model does: it
\* returns the trimmed text, the "Email generation failed" literal, or a
\* string that begins "Error generating email: ".
C7_WriteMailNeverRaises ==
    op.name = "write_mail"
    => /\ ret.raised = ""
       /\ \/ ~op.llm.raises /\ ret.val = StrV(Strip(op.llm.content))
          \/ ret.val = StrV(MailFailedLiteral)
          \/ BeginsWith(ret.val.v, MailErrorPrefix)

\* The skills argument is a list that is empty or holds only blank strs.
C8_NoSkill(skills) ==
    /\ skills.t = "list"
    /\ \A i \in DOMAIN skills.v : skills.v[i].t = "str" /\ IsBlank(skills.v[i].v)

\* C8: query_links on an empty skills list, or one whose skills are all
\* blank, returns the empty list and makes no call to the collection, in
\* every state of the store.
C8_BlankSkillsSkipIndex ==
    (op.name = "query_links" /\ C8_NoSkill(op.skills))
    => (ret = Return(<<>>) /\ calls = <<>>)

\* Blank skills asked of a store whose collection is open and holds entries.
C8_Witness ==
    /\ op.name = "query_links"
    /\ op.skills = ListV(<<StrV(<<" ", " ">>)>>)
    /\ collection
    /\ index # <<>>
    /\ ret = Return(<<>>)

\* C9: add_project with a blank (empty or whitespace-only) techstack or
\* description returns false and leaves the dataset, the CSV file and the
\* collection as they were.
C9_BlankProjectRejected ==
    [][(op'.name = "add_project"
        /\ (IsBlank(op'.techstack) \/ IsBlank(op'.description)))
        => (/\ ret' = Return(FALSE)
            /\ data' = data
            /\ csv_file' = csv_file
            /\ index' = index)]_vars

\* C10, as stated: whenever the collection already holds an entry,
\* load_portfolio inserts nothing and returns true.
C10_PopulatedLoadReturnsTrue ==
    [][(op'.name = "load_portfolio" /\ Len(index) > 0)
        => (index' = index /\ ret' = Return(TRUE))]_vars

\* C10, amended: whenever the collection already holds an entry,
\* load_portfolio inserts nothing, so that a second call in a row leaves the
\* index as the first left it; it returns true exactly when the collection
\* and the embedding model were built, the dataset is not empty and
\* count() does not fail, and false otherwise.
C10_PopulatedLoadInsertsNothing ==
    [][(op'.name = "load_portfolio" /\ Len(index) > 0)
        => (/\ index' = index
            /\ ~Called(calls', "collection.add")
            /\ ret'.raised = ""
            /\ ret'.val = (collection /\ embedding_model /\ data # <<>>
                           /\ ~op'.count_fails))]_vars

\* A load over a populated collection that found it so and returned true.
C10_Witness ==
    /\ op.name = "load_portfolio"
    /\ ret = Return(TRUE)
    /\ calls = <<"collection.count">>
    /\ index # <<>>
    /\ Len(index) < Len(data)

\* C11: a Regenerate request fetches no page, calls neither extract_jobs
\* nor the portfolio store, and leaves the five cache slots and the index as
\* they were whatever it renders; when the cache passes the check it calls
\* write_mail, once, with exactly the cached job, links, user name and tone.
C11_RegenerateReusesCache ==
    [][op'.name = "regenerate"
        => /\ cached_data' = cached_data
           /\ index' = index
           /\ \A what \in {"loader.load", "clean_text", "extract_jobs",
                           "load_portfolio", "query_links", "collection.count",
                           "collection.query", "collection.add"} :
                 ~Called(calls', what)
           /\ (initialized /\ cached_data # EmptyCache)
                 => /\ Len(SelectSeq(calls', LAMBDA c : c = "write_mail")) = 1
                    /\ op'.job = cached_data.last_job
                    /\ ListV(op'.links) = cached_data.last_links
                    /\ StrV(op'.username) = cached_data.last_username
                    /\ StrV(op'.tone) = cached_data.last_tone]_vars

\* A Regenerate that composed an e-mail from a cache holding links.
C11_Witness ==
    /\ op.name = "regenerate"
    /\ Called(calls, "write_mail")
    /\ cached_data.last_links.t = "list"
    /\ cached_data.last_links.v # <<>>
    /\ op.links = cached_data.last_links.v
    /\ page.email # NoneV

\* The request reached write_mail, and the language-model call write_mail
\* made for its prompt raised.
C12_ComposerCallRaised(request, made) ==
    /\ Len(made) >= 2
    /\ made[Len(made) - 1] = "write_mail"
    /\ made[Len(made)] = "llm.invoke"
    /\ request.llm.raises

\* C12: when the language-model call made while composing the e-mail raises
\* during a Generate request, the page shows an error and no e-mail, and the
\* cache is as it was before the request.
C12_ComposerFailureIsAnError ==
    [][(op'.name = "generate" /\ C12_ComposerCallRaised(op', calls'))
        => (/\ page'.error # NoneV
            /\ page'.email = NoneV
            /\ cached_data' = cached_data)]_vars

\* The text with every whole <script>...</script> and <style>...</style>
\* block cut out, opening tag, inner text and closing tag.
C13_WithoutBlocks(text) ==
    RemoveBlocks(RemoveBlocks(text, <<"s", "c", "r", "i", "p", "t">>),
                 <<"s", "t", "y", "l", "e">>)

\* C13: clean_text removes each whole script and style block, the text
\* between the opening and the closing tag included: its output is what it
\* gives for the text with those blocks cut out, so nothing of the inside of
\* a block is left in it.
C13_BlocksRemoved ==
    op.name = "clean_text"
    => ret.val = StrV(clean_text(C13_WithoutBlocks(op.text)))

\* The cache is as initialised, or holds a non-empty job record, a
\* non-blank user name, one of the four tones and a non-empty URL.
C14_EmptyOrComplete(cache) ==
    \/ cache = EmptyCache
    \/ /\ cache.last_job.t = "dict" /\ Truthy(cache.last_job)
       /\ cache.last_username.t = "str" /\ ~IsBlank(cache.last_username.v)
       /\ cache.last_tone.t = "str" /\ cache.last_tone.v \in Tones
       /\ cache.last_url.t = "str" /\ cache.last_url.v # <<>>

\* C14: after any sequence of Generate and Regenerate requests the cache
\* is either all empty or holds a non-empty job, a non-blank user name, a
\* tone of the four and a non-empty URL; a cache that is not empty never
\* becomes empty again, and a Regenerate on it passes the cache check: it
\* calls write_mail and does not render the "No previous data found" error.
C14_CacheEmptyOrComplete ==
    /\ []C14_EmptyOrComplete(cached_data)
    /\ [][cached_data # EmptyCache
            => /\ cached_data' # EmptyCache
               /\ op'.name = "regenerate"
                    => /\ page'.error # StrV(NoPreviousDataMsg)
                       /\ Called(calls', "write_mail")]_vars

\* A Regenerate on a cache that holds the defaults Generate put in for a
\* blank user name and an unknown tone.
C14_Witness ==
    /\ op.name = "regenerate"
    /\ Called(calls, "write_mail")
    /\ cached_data.last_username = StrV(<<"User">>)
    /\ cached_data.last_tone = StrV(<<"formal">>)
    /\ cached_data.last_url = StrV(<<"http://jobs.example/careers">>)

\* The index holds an entry for every row, as many as the row occurs.
C15_Covers(entries, rows) ==
    \A i \in DOMAIN rows :
        Cardinality({j \in DOMAIN entries : entries[j] = Entry(rows[i])})
            >= Cardinality({k \in DOMAIN rows : rows[k] = rows[i]})

\* C15: starting from an empty collection, after any sequence of
\* load_portfolio and add_project calls, whenever load_portfolio returns
\* true the collection holds an entry for every row of the dataset.
C15_LoadedIndexCoversDataset ==
    [][(op'.name = "load_portfolio" /\ ret' = Return(TRUE))
        => C15_Covers(index', data')]_vars

\* C16: whenever add_project returns false, for a blank argument or a CSV
\* file that cannot be written, the dataset holds exactly the rows it held
\* before the call, and get_all_projects returns the same list as before.
C16_FailedAddKeepsDataset ==
    [][(op'.name = "add_project" /\ ret' = Return(FALSE))
        => /\ data' = data
           /\ GetAllProjects([Store EXCEPT !.data = data'])
                = GetAllProjects(Store)]_vars

=============================================================================
